---- MODULE Spec2Model ----
(***************************************************************************)
(* Model of P3F_CEPomatic.py: the CEP-o-matic asset stager.  One run of    *)
(* the script is a sequence of steps (open the session log, check the      *)
(* location, scan the working directory entry by entry, evaluate the final *)
(* gate, wait for Enter, exit); the user may start the script again on the *)
(* directory tree the previous run left behind.                            *)
(*                                                                         *)
(* File names are sequences of one-character strings so that endswith,     *)
(* startswith, lower and Path.stem are computed as Python computes them.   *)
(* A directory is a function from the names in it to the content of each   *)
(* file.                                                                    *)
(***************************************************************************)
EXTENDS Naturals, Integers, Sequences, FiniteSets, TLC

\* Largest number of entries in the working directory at the first run.
MaxFiles == 3
\* Largest number of times the script is started on the same tree.
MaxRuns == 2

VARIABLES
    cwd,            \* os.getcwd(), as the sequence of path components
    logsDirExists,  \* whether SETUP_DIR.parents[0]/Logs exists
    workdir,        \* SETUP_DIR: name -> content
    isoDir,         \* FILES_DIR/iso
    elfDir,         \* FILES_DIR/elf
    biosDir,        \* FILES_DIR/bios
    memDir,         \* FILES_DIR/memcards
    pc,             \* position of the script
    listing,        \* the list os.listdir(SETUP_DIR) returned to the for loop
    idx,            \* index of the next entry of listing the loop visits
    listed,         \* whether the for loop has called os.listdir
    found_iso,      \* flag, line 77
    found_bios,     \* flag, line 78
    log,            \* records written to the session log file
    prompted,       \* whether input('Press Enter ...') has been reached
    exitStatus,     \* exit status of the process, -1 while it runs
    exception,      \* name of the uncaught exception that ended the run
    rc7z,           \* return code of the last 7z.exe call, -1 if none
    run,            \* number of the current run
    before,         \* the directories as they were when this run started
    prevFinished    \* whether the previous run ended with 'All finished!'

vars == <<cwd, logsDirExists, workdir, isoDir, elfDir, biosDir, memDir, pc,
          listing, idx, listed, found_iso, found_bios, log, prompted,
          exitStatus, exception, rc7z, run, before, prevFinished>>

fsVars == <<workdir, isoDir, elfDir, biosDir, memDir>>

(***************************************************************************)
(* Strings                                                                 *)
(***************************************************************************)
UpperChars ==
    <<"A","B","C","D","E","F","G","H","I","J","K","L","M",
      "N","O","P","Q","R","S","T","U","V","W","X","Y","Z">>

LowerChars ==
    <<"a","b","c","d","e","f","g","h","i","j","k","l","m",
      "n","o","p","q","r","s","t","u","v","w","x","y","z">>

LowerChar(c) ==
    IF \E i \in 1..Len(UpperChars) : UpperChars[i] = c
    THEN LowerChars[CHOOSE i \in 1..Len(UpperChars) : UpperChars[i] = c]
    ELSE c

\* str.lower()
lower(s) == [i \in 1..Len(s) |-> LowerChar(s[i])]

\* str.endswith(suffix)
endswith(s, suffix) ==
    /\ Len(s) >= Len(suffix)
    /\ SubSeq(s, Len(s) - Len(suffix) + 1, Len(s)) = suffix

\* str.startswith(prefix)
startswith(s, prefix) ==
    /\ Len(s) >= Len(prefix)
    /\ SubSeq(s, 1, Len(prefix)) = prefix

\* str.rfind('.') + 1, i.e. the 1-based position of the last dot, 0 if none
rfindDot(s) ==
    IF \E i \in 1..Len(s) : s[i] = "."
    THEN CHOOSE i \in 1..Len(s) :
            /\ s[i] = "."
            /\ \A j \in (i + 1)..Len(s) : s[j] # "."
    ELSE 0

\* Path(name).stem: the name without its last suffix; a leading or a
\* trailing dot does not start a suffix.
stem(name) ==
    LET i == rfindDot(name)
    IN  IF 1 < i /\ i < Len(name) THEN SubSeq(name, 1, i - 1) ELSE name

\* Whether Path.glob('*.*') yields an entry of this name.
globStarDotStar(name) == \E i \in 1..Len(name) : name[i] = "."

(***************************************************************************)
(* Names and constants of the script                                       *)
(***************************************************************************)
SETUPDIR_NAME == <<"P3F Mods", "Setup">>
ISO_NAME == <<"P","3","F",".","i","s","o">>
SLUS_NAME == <<"S","L","U","S","_","2","1","6",".","2","1">>
ELF_NAME == SLUS_NAME \o <<".","e","l","f">>
ISO_CHECKSUM == "94a81c7c5f0d255c"
\* the initial value 'none' of found_bios
NoBios == <<"n","o","n","e">>

ExtIso == <<".","i","s","o">>
ExtBin == <<".","b","i","n">>
ExtMec == <<".","m","e","c">>
ExtPs2 == <<".","p","s","2">>

(***************************************************************************)
(* Directories                                                             *)
(***************************************************************************)
EmptyDir == [n \in {} |-> "x"]

Remove(d, n) == [x \in DOMAIN d \ {n} |-> d[x]]

Put(d, n, c) == [x \in DOMAIN d \cup {n} |-> IF x = n THEN c ELSE d[x]]

\* os.replace(src, dst) inside one directory; src exists
os_replace(d, src, dst) == Put(Remove(d, src), dst, d[src])

\* get_checksum: the digest is a function of the file's content; only the
\* unmodified North American disc has the expected digest.
get_checksum(content) ==
    IF content = "p3f" THEN "94a81c7c5f0d255c" ELSE "5e1fb0c4a2d90177"

(***************************************************************************)
(* Paths                                                                   *)
(***************************************************************************)
\* Path.parents has one element per component; parents[k] drops k+1 of them
hasParent(p, k) == k < Len(p)

parents(p, k) == SubSeq(p, 1, Len(p) - (k + 1))

\* line 126: SETUP_DIR.parents[1].joinpath(SETUPDIR_NAME) == SETUP_DIR
locationOK(p) == parents(p, 1) \o SETUPDIR_NAME = p

(***************************************************************************)
(* Log records                                                             *)
(***************************************************************************)
Rec(level, msg, file) == [level |-> level, msg |-> msg, file |-> file]

Logged(msg) == \E i \in 1..Len(log) : log[i].msg = msg

\* log.critical(...) of fatal_error, line 94
fatalRecord(msg) == Rec("critical", msg, <<>>)

(***************************************************************************)
(* The worlds a run can start in                                           *)
(***************************************************************************)
Name_P3F_iso == ISO_NAME
Name_b_ISO == <<"b",".","I","S","O">>
Name_b_bin == <<"b",".","b","i","n">>
Name_c_bin == <<"c",".","b","i","n">>
Name_b_mec == <<"b",".","m","e","c">>
Name_b_nvm == <<"b",".","n","v","m">>
Name_none_mec == <<"n","o","n","e",".","m","e","c">>
Name_x_bin_mec == <<"x",".","b","i","n",".","m","e","c">>
Name_m_ps2 == <<"m",".","p","s","2">>
Name_old_bin == <<"o","l","d",".","b","i","n">>
Name_rom1 == <<"r","o","m","1">>

WorkNames ==
    {Name_P3F_iso, Name_b_ISO, Name_b_bin, Name_c_bin, Name_b_mec,
     Name_b_nvm, Name_none_mec, Name_x_bin_mec, Name_m_ps2}

Contents(n) ==
    IF endswith(lower(n), ExtIso) THEN {"p3f", "other"}
    ELSE IF endswith(n, ExtPs2) THEN {"card"}
    ELSE {"fw"}

WorkDirs ==
    UNION { {d \in [S -> {"p3f", "other", "card", "fw"}] :
                \A n \in S : d[n] \in Contents(n)} :
            S \in {T \in SUBSET WorkNames : Cardinality(T) <= MaxFiles} }

BiosDirs == { [n \in S |-> "old"] : S \in SUBSET {Name_old_bin, Name_rom1} }

CorrectCwd == <<"games", "P3F Mods", "Setup">>

Cwds == {CorrectCwd, <<"games", "Downloads">>, <<"Setup">>}

Listings(d) ==
    {s \in [1..Cardinality(DOMAIN d) -> DOMAIN d] :
        \A i, j \in 1..Cardinality(DOMAIN d) : i # j => s[i] # s[j]}

Snapshot(w, i, e, b, m) == [work |-> w, iso |-> i, elf |-> e, bios |-> b, mem |-> m]

Init ==
    /\ cwd \in Cwds
    /\ logsDirExists \in BOOLEAN
    /\ workdir \in WorkDirs
    /\ isoDir = [n \in {ISO_NAME} |-> "old"]
    /\ elfDir = EmptyDir
    /\ biosDir \in BiosDirs
    /\ memDir = EmptyDir
    /\ pc = "start"
    /\ listing = <<>>
    /\ idx = 1
    /\ listed = FALSE
    /\ found_iso = FALSE
    /\ found_bios = NoBios
    /\ log = <<>>
    /\ prompted = FALSE
    /\ exitStatus = -1
    /\ exception = "none"
    /\ rc7z = -1
    /\ run = 1
    /\ before = Snapshot(workdir, isoDir, elfDir, biosDir, memDir)
    /\ prevFinished = FALSE

(***************************************************************************)
(* Ends of a run                                                           *)
(***************************************************************************)
\* An exception nobody catches: traceback, exit status 1, no prompt.
Raise(e) ==
    /\ pc' = "exited"
    /\ exitStatus' = 1
    /\ exception' = e

\* sys.exit() without an argument
sysExitStatus == 0

(***************************************************************************)
(* Lines 28-78: module start-up                                            *)
(***************************************************************************)
OpenLog ==
    /\ pc = "start"
    /\ IF ~hasParent(cwd, 0)
       THEN Raise("IndexError") /\ UNCHANGED log
       ELSE IF ~logsDirExists
       THEN Raise("FileNotFoundError") /\ UNCHANGED log
       ELSE /\ log' = <<Rec("debug", "created_log", <<>>)>>
            /\ pc' = "check"
            /\ UNCHANGED <<exitStatus, exception>>
    /\ UNCHANGED <<cwd, logsDirExists, fsVars, listing, idx, listed, found_iso,
                   found_bios, prompted, rc7z, run, before, prevFinished>>

(***************************************************************************)
(* Lines 124-130: location check, then the for loop lists the directory    *)
(***************************************************************************)
LocationCheck ==
    /\ pc = "check"
    /\ IF ~hasParent(cwd, 1)
       THEN /\ Raise("IndexError")
            /\ UNCHANGED <<log, prompted, listing, listed>>
       ELSE IF ~locationOK(cwd)
       THEN /\ log' = Append(log, fatalRecord("wrong_directory"))
            /\ prompted' = TRUE
            /\ pc' = "fatal_input"
            /\ UNCHANGED <<exitStatus, exception, listing, listed>>
       ELSE /\ listing' \in Listings(workdir)
            /\ listed' = TRUE
            /\ pc' = "scan"
            /\ UNCHANGED <<log, prompted, exitStatus, exception>>
    /\ idx' = 1
    /\ UNCHANGED <<cwd, logsDirExists, fsVars, found_iso, found_bios, rc7z,
                   run, before, prevFinished>>

(***************************************************************************)
(* Lines 130-197: one iteration of the scan loop                           *)
(***************************************************************************)
\* the chain with the .bin branch not guarded by found_bios == 'none'
Classify_BinUngated(file, fi, fb) ==
    IF endswith(lower(file), ExtIso) /\ fi = FALSE THEN "iso"
    ELSE IF endswith(file, ExtBin) THEN "bin"
    ELSE IF endswith(file, ExtMec) /\ fb = NoBios THEN "mec"
    ELSE IF endswith(file, ExtPs2) THEN "ps2"
    ELSE "skip"

\* the chain with the .ps2 branch guarded like the firmware branches
Classify_Ps2Gated(file, fi, fb) ==
    IF endswith(lower(file), ExtIso) /\ fi = FALSE THEN "iso"
    ELSE IF endswith(file, ExtBin) /\ fb = NoBios THEN "bin"
    ELSE IF endswith(file, ExtMec) /\ fb = NoBios THEN "mec"
    ELSE IF endswith(file, ExtPs2) /\ fb = NoBios THEN "ps2"
    ELSE "skip"

\* the if / elif chain of the loop body
Classify(file, fi, fb) ==
    IF endswith(lower(file), ExtIso) /\ fi = FALSE THEN "iso"
    ELSE IF endswith(file, ExtBin) /\ fb = NoBios THEN "bin"
    ELSE IF endswith(file, ExtMec) /\ fb = NoBios THEN "mec"
    ELSE IF endswith(file, ExtPs2) THEN "ps2"
    ELSE "skip"

\* what 7z.exe can do: exit 0 with the entry written, or fail
Outcomes7z == {[rc |-> 0, produced |-> TRUE], [rc |-> 2, produced |-> FALSE]}

InScan == pc = "scan" /\ idx <= Len(listing)

NextEntry == pc' = IF idx + 1 > Len(listing) THEN "gate" ELSE "scan"

ScanIso ==
    /\ InScan
    /\ Classify(listing[idx], found_iso, found_bios) = "iso"
    /\ LET file == listing[idx]
           log0 == Append(log, Rec("info", "found", file))
       IN
       IF file \notin DOMAIN workdir
       THEN /\ Raise("FileNotFoundError")
            /\ log' = log0
            /\ UNCHANGED <<workdir, found_iso, rc7z, idx>>
       ELSE
       LET checksum == get_checksum(workdir[file])
           log1 == Append(log0, Rec("debug", "has_checksum", file))
       IN
       IF checksum = ISO_CHECKSUM
       THEN \E out \in Outcomes7z :
              LET wd1 == IF file # ISO_NAME
                         THEN os_replace(workdir, file, ISO_NAME)
                         ELSE workdir
                  log2 == IF file # ISO_NAME
                          THEN Append(log1, Rec("info", "renaming", file))
                          ELSE log1
                  log3 == Append(log2, Rec("info", "extracting", file))
                  wd2 == IF out.produced THEN Put(wd1, SLUS_NAME, "slus") ELSE wd1
              IN
              /\ rc7z' = out.rc
              /\ IF out.rc # 0
                 THEN /\ Raise("CalledProcessError")
                      /\ workdir' = wd2
                      /\ log' = log3
                      /\ UNCHANGED <<found_iso, idx>>
                 ELSE IF SLUS_NAME \notin DOMAIN wd2
                 THEN /\ Raise("FileNotFoundError")
                      /\ workdir' = wd2
                      /\ log' = log3
                      /\ UNCHANGED <<found_iso, idx>>
                 ELSE LET wd3 == os_replace(wd2, SLUS_NAME, ELF_NAME)
                          ok == ISO_NAME \in DOMAIN wd3 /\ ELF_NAME \in DOMAIN wd3
                      IN
                      /\ workdir' = wd3
                      /\ found_iso' = IF ok THEN TRUE ELSE found_iso
                      /\ log' = Append(log3,
                                  IF ok THEN Rec("info", "iso_elf_ok", file)
                                        ELSE Rec("error", "missing_iso_or_elf", file))
                      /\ idx' = idx + 1
                      /\ NextEntry
                      /\ UNCHANGED <<exitStatus, exception>>
       ELSE /\ log' = Append(log1, Rec("error", "checksum_invalid", file))
            /\ idx' = idx + 1
            /\ NextEntry
            /\ UNCHANGED <<workdir, found_iso, rc7z, exitStatus, exception>>
    /\ UNCHANGED <<cwd, logsDirExists, isoDir, elfDir, biosDir, memDir, listing,
                   listed, found_bios, prompted, run, before, prevFinished>>

ScanBin ==
    /\ InScan
    /\ Classify(listing[idx], found_iso, found_bios) = "bin"
    /\ found_bios' = listing[idx]
    /\ log' = Append(log, Rec("info", "packaged_bios_found", listing[idx]))
    /\ idx' = idx + 1
    /\ NextEntry
    /\ UNCHANGED <<cwd, logsDirExists, fsVars, listing, listed, found_iso,
                   prompted, exitStatus, exception, rc7z, run, before,
                   prevFinished>>

ScanMec ==
    /\ InScan
    /\ Classify(listing[idx], found_iso, found_bios) = "mec"
    /\ found_bios' = stem(listing[idx])
    /\ log' = Append(log, Rec("info", "loose_bios_found", listing[idx]))
    /\ idx' = idx + 1
    /\ NextEntry
    /\ UNCHANGED <<cwd, logsDirExists, fsVars, listing, listed, found_iso,
                   prompted, exitStatus, exception, rc7z, run, before,
                   prevFinished>>

ScanPs2 ==
    /\ InScan
    /\ Classify(listing[idx], found_iso, found_bios) = "ps2"
    /\ LET file == listing[idx]
       IN IF file \notin DOMAIN workdir
          THEN /\ Raise("FileNotFoundError")
               /\ UNCHANGED <<workdir, memDir, idx>>
          ELSE /\ memDir' = Put(memDir, file, workdir[file])
               /\ workdir' = Remove(workdir, file)
               /\ idx' = idx + 1
               /\ NextEntry
               /\ UNCHANGED <<exitStatus, exception>>
    /\ log' = Append(log, Rec("info", "moving_memcard", listing[idx]))
    /\ UNCHANGED <<cwd, logsDirExists, isoDir, elfDir, biosDir, listing, listed,
                   found_iso, found_bios, prompted, rc7z, run, before,
                   prevFinished>>

ScanSkip ==
    /\ InScan
    /\ Classify(listing[idx], found_iso, found_bios) = "skip"
    /\ idx' = idx + 1
    /\ NextEntry
    /\ UNCHANGED <<cwd, logsDirExists, fsVars, listing, listed, found_iso,
                   found_bios, log, prompted, exitStatus, exception, rc7z, run,
                   before, prevFinished>>

\* the loop body is never entered for an empty directory
ScanEmpty ==
    /\ pc = "scan"
    /\ idx > Len(listing)
    /\ pc' = "gate"
    /\ UNCHANGED <<cwd, logsDirExists, fsVars, listing, idx, listed, found_iso,
                   found_bios, log, prompted, exitStatus, exception, rc7z, run,
                   before, prevFinished>>

(***************************************************************************)
(* Lines 199-235: the final gate                                           *)
(***************************************************************************)
\* the gate with the disc flag forgotten
GateOK_NoIso(fi, fb) == fb # NoBios

\* the gate with 'or' in place of 'and'
GateOK_Or(fi, fb) == fi = TRUE \/ fb # NoBios

GateOK(fi, fb) == fi = TRUE /\ fb # NoBios

\* lines 202-206: os.remove of every entry BIOS_DIR.glob('*.*') yields
emptyBios(d) == [n \in {x \in DOMAIN d : ~globStarDotStar(x)} |-> d[n]]

\* lines 223-225: the loose files moved out of the directory dir
looseFiles(dir, fb) == {n \in DOMAIN dir : startswith(n, fb)}

\* the errors with 'elif' in place of the second 'if'
gateErrors_Elif(fi, fb) ==
    IF fi # TRUE THEN <<Rec("error", "missing_iso", <<>>)>>
    ELSE IF fb = NoBios THEN <<Rec("error", "missing_bios", <<>>)>>
    ELSE <<>>

\* lines 228-231: the errors logged before fatal_error
gateErrors(fi, fb) ==
    (IF fi # TRUE THEN <<Rec("error", "missing_iso", <<>>)>> ELSE <<>>)
    \o (IF fb = NoBios THEN <<Rec("error", "missing_bios", <<>>)>> ELSE <<>>)

GatePass ==
    /\ pc = "gate"
    /\ GateOK(found_iso, found_bios)
    /\ LET bios1 == emptyBios(biosDir)
       IN
       /\ IF ISO_NAME \notin DOMAIN workdir
          THEN /\ Raise("FileNotFoundError")
               /\ biosDir' = bios1
               /\ UNCHANGED <<workdir, isoDir, elfDir, log, prompted>>
          ELSE
          LET iso1 == Put(isoDir, ISO_NAME, workdir[ISO_NAME])
              wd1 == Remove(workdir, ISO_NAME)
          IN
          IF ELF_NAME \notin DOMAIN wd1
          THEN /\ Raise("FileNotFoundError")
               /\ biosDir' = bios1
               /\ isoDir' = iso1
               /\ workdir' = wd1
               /\ UNCHANGED <<elfDir, log, prompted>>
          ELSE
          LET elf1 == Put(elfDir, ELF_NAME, wd1[ELF_NAME])
              wd2 == Remove(wd1, ELF_NAME)
          IN
          /\ isoDir' = iso1
          /\ elfDir' = elf1
          /\ IF endswith(found_bios, ExtBin)
             THEN IF found_bios \notin DOMAIN wd2
                  THEN /\ Raise("FileNotFoundError")
                       /\ biosDir' = bios1
                       /\ workdir' = wd2
                       /\ UNCHANGED <<log, prompted>>
                  ELSE /\ biosDir' = Put(bios1, found_bios, wd2[found_bios])
                       /\ workdir' = Remove(wd2, found_bios)
                       /\ log' = Append(log, Rec("info", "all_finished", <<>>))
                       /\ prompted' = TRUE
                       /\ pc' = "done_input"
                       /\ UNCHANGED <<exitStatus, exception>>
             ELSE LET moved == looseFiles(wd2, found_bios)
                  IN
                  /\ biosDir' = [n \in DOMAIN bios1 \cup moved |->
                                    IF n \in moved THEN wd2[n] ELSE bios1[n]]
                  /\ workdir' = [n \in DOMAIN wd2 \ moved |-> wd2[n]]
                  /\ log' = Append(log, Rec("info", "all_finished", <<>>))
                  /\ prompted' = TRUE
                  /\ pc' = "done_input"
                  /\ UNCHANGED <<exitStatus, exception>>
    /\ UNCHANGED <<cwd, logsDirExists, memDir, listing, idx, listed, found_iso,
                   found_bios, rc7z, run, before, prevFinished>>

GateFail ==
    /\ pc = "gate"
    /\ ~GateOK(found_iso, found_bios)
    /\ log' = log \o gateErrors(found_iso, found_bios)
                  \o <<fatalRecord("cannot_continue")>>
    /\ prompted' = TRUE
    /\ pc' = "fatal_input"
    /\ UNCHANGED <<cwd, logsDirExists, fsVars, listing, idx, listed, found_iso,
                   found_bios, exitStatus, exception, rc7z, run, before,
                   prevFinished>>

(***************************************************************************)
(* Lines 95-96 and 236-237: the user presses Enter, sys.exit()             *)
(***************************************************************************)
PressEnter ==
    /\ pc \in {"fatal_input", "done_input"}
    /\ pc' = "exited"
    /\ exitStatus' = sysExitStatus
    /\ UNCHANGED <<cwd, logsDirExists, fsVars, listing, idx, listed, found_iso,
                   found_bios, log, prompted, exception, rc7z, run, before,
                   prevFinished>>

(***************************************************************************)
(* The user starts the script again in the same directory                  *)
(***************************************************************************)
Rerun ==
    /\ pc = "exited"
    /\ run < MaxRuns
    /\ run' = run + 1
    /\ prevFinished' = Logged("all_finished")
    /\ before' = Snapshot(workdir, isoDir, elfDir, biosDir, memDir)
    /\ pc' = "start"
    /\ listing' = <<>>
    /\ idx' = 1
    /\ listed' = FALSE
    /\ found_iso' = FALSE
    /\ found_bios' = NoBios
    /\ log' = <<>>
    /\ prompted' = FALSE
    /\ exitStatus' = -1
    /\ exception' = "none"
    /\ rc7z' = -1
    /\ UNCHANGED <<cwd, logsDirExists, fsVars>>

Next ==
    \/ OpenLog
    \/ LocationCheck
    \/ ScanIso
    \/ ScanBin
    \/ ScanMec
    \/ ScanPs2
    \/ ScanSkip
    \/ ScanEmpty
    \/ GatePass
    \/ GateFail
    \/ PressEnter
    \/ Rerun

Spec == Init /\ [][Next]_vars


(***************************************************************************)
(* Vocabulary of the properties                                            *)
(***************************************************************************)
IsIsoEntry(n) == endswith(lower(n), ExtIso)

IsFirmwareEntry(n) == endswith(n, ExtBin) \/ endswith(n, ExtMec)

ValidDisc(content) == get_checksum(content) = ISO_CHECKSUM

\* the scan loop of this run has visited every entry of its listing
ScanDone == listed /\ idx > Len(listing)

\* the final gate of this run has been evaluated
GateEvaluated == ScanDone /\ pc \in {"fatal_input", "done_input", "exited"}

HasCritical == \E i \in 1..Len(log) : log[i].level = "critical"

CountLogged(msg) == Cardinality({i \in 1..Len(log) : log[i].msg = msg})

FirstIn(i, P(_)) ==
    /\ i \in 1..Len(listing)
    /\ P(listing[i])
    /\ \A j \in 1..(i - 1) : ~P(listing[j])

(***************************************************************************)
(* C1                                                                      *)
(***************************************************************************)
C1_Pre ==
    /\ listed
    /\ \E i \in 1..Len(listing) :
          FirstIn(i, IsIsoEntry) /\ ValidDisc(before.work[listing[i]])
    /\ rc7z = 0
    /\ \E n \in DOMAIN before.work : IsFirmwareEntry(n)

\* C1: when the location check passes, the first .iso entry has the matching
\* checksum, 7z exits 0 and the directory holds a .bin or .mec file, the run
\* ends with 'All finished', P3F.iso is in the iso destination, the .elf in
\* the elf destination, a firmware file of the directory in the bios
\* destination, and none of them is left in the working directory.
C1_SuccessPostcondition ==
    (pc = "exited" /\ C1_Pre) =>
        /\ Logged("all_finished")
        /\ ISO_NAME \in DOMAIN isoDir /\ isoDir[ISO_NAME] = "p3f"
        /\ ELF_NAME \in DOMAIN elfDir
        /\ ISO_NAME \notin DOMAIN workdir
        /\ ELF_NAME \notin DOMAIN workdir
        /\ \E n \in DOMAIN before.work :
              /\ IsFirmwareEntry(n)
              /\ n \in DOMAIN biosDir
              /\ n \notin DOMAIN workdir

(***************************************************************************)
(* C2                                                                      *)
(***************************************************************************)
\* C2: when the working directory is not <root>/P3F Mods/Setup, nothing in it
\* is listed or changed and the run ends through fatal_error with the
\* 'isn't in the correct directory' message, whether or not Logs exists.
C2_WrongLocationFatal ==
    ~endswith(cwd, SETUPDIR_NAME) =>
        /\ ~listed
        /\ workdir = before.work
        /\ pc = "exited" =>
              /\ Logged("wrong_directory")
              /\ prompted
              /\ exception = "none"

NoValidIso ==
    \A n \in DOMAIN before.work : IsIsoEntry(n) => ~ValidDisc(before.work[n])

C4_BinAlwaysWins ==
    (/\ ScanDone
     /\ \E n \in DOMAIN before.work : endswith(n, ExtBin)
     /\ \E n \in DOMAIN before.work : endswith(n, ExtMec))
    => /\ found_bios \in DOMAIN before.work
       /\ endswith(found_bios, ExtBin)
       /\ ~Logged("loose_bios_found")

\* C4 amended: the listing order decides.  When the first firmware entry of
\* the listing is a .bin, found_bios is that file at the end of the scan and
\* the .mec branch never records; when it is a .mec whose base name is not
\* 'none', found_bios is that base name and no .bin is recorded.
C4_FirstFirmwareWins ==
    ScanDone =>
        \A i \in 1..Len(listing) : FirstIn(i, IsFirmwareEntry) =>
            IF endswith(listing[i], ExtBin)
            THEN found_bios = listing[i] /\ ~Logged("loose_bios_found")
            ELSE stem(listing[i]) # NoBios =>
                    /\ found_bios = stem(listing[i])
                    /\ ~Logged("packaged_bios_found")

C4_Witness ==
    /\ ScanDone
    /\ \E n \in DOMAIN before.work : endswith(n, ExtMec)
    /\ \E i \in 1..Len(listing) :
          /\ FirstIn(i, IsFirmwareEntry)
          /\ endswith(listing[i], ExtBin)
          /\ i < Len(listing)
          /\ found_bios = listing[i]

(***************************************************************************)
(* C5                                                                      *)
(***************************************************************************)
Ps2Moved(n) ==
    /\ n \in DOMAIN memDir
    /\ memDir[n] = before.work[n]
    /\ n \notin DOMAIN workdir

\* C5 as stated: every .ps2 file of the directory is in the memory-card
\* destination when a run that scanned the directory terminates, however the
\* disc-image processing ended.
C5_Ps2AlwaysMoved ==
    (pc = "exited" /\ listed) =>
        \A n \in DOMAIN before.work : endswith(n, ExtPs2) => Ps2Moved(n)

\* C5 amended: every .ps2 entry the scan loop has visited is in the
\* memory-card destination and gone from the working directory; once the
\* loop has visited the whole listing this is every .ps2 file of the
\* directory, whether the final gate then passes or fails.
C5_Ps2MovedWhenReached ==
    listed =>
        /\ \A i \in 1..Len(listing) :
              (i < idx /\ endswith(listing[i], ExtPs2)) => Ps2Moved(listing[i])
        /\ ScanDone =>
              \A n \in DOMAIN before.work : endswith(n, ExtPs2) => Ps2Moved(n)

C5_Witness ==
    /\ pc = "exited"
    /\ Logged("cannot_continue")
    /\ \E n \in DOMAIN before.work : endswith(n, ExtPs2) /\ Ps2Moved(n)

(***************************************************************************)
(* C6                                                                      *)
(***************************************************************************)
ReportsBothMissing ==
    /\ found_iso = FALSE
    /\ found_bios = NoBios
    /\ Logged("missing_iso")
    /\ Logged("missing_bios")
    /\ Logged("cannot_continue")
    /\ prompted
    /\ exception = "none"

\* C6 as stated: a run started after a run that ended with 'All finished',
\* and not cut short by an exception, reports both the disc image and the
\* firmware missing and ends through fatal_error, whatever the first
\* directory held.
C6_RerunReportsBoth ==
    (run >= 2 /\ prevFinished /\ pc = "exited" /\ exception = "none")
        => ReportsBothMissing

\* what the successful run left behind holds no disc image with the matching
\* checksum, no .bin file and no .mec file with a base name other than 'none'
NothingLeftToFind ==
    \A n \in DOMAIN before.work :
        /\ IsIsoEntry(n) => ~ValidDisc(before.work[n])
        /\ ~endswith(n, ExtBin)
        /\ endswith(n, ExtMec) => stem(n) = NoBios

\* C6 amended: a run started after a run that ended with 'All finished'
\* reports both missing and ends through fatal_error provided the first run
\* left no disc image with the matching checksum, no .bin and no .mec (other
\* than none.mec) in the working directory.
C6_RerunReportsBothWhenNothingLeft ==
    (run >= 2 /\ prevFinished /\ pc = "exited" /\ NothingLeftToFind)
        => ReportsBothMissing

C6_Witness ==
    /\ run >= 2
    /\ prevFinished
    /\ pc = "exited"
    /\ NothingLeftToFind
    /\ before.work # EmptyDir
    /\ ReportsBothMissing

(***************************************************************************)
(* C7                                                                      *)
(***************************************************************************)
\* the fatal conditions: the location check finds the wrong directory, the
\* gate finds the disc image or the firmware missing, 7z exits non-zero
FatalCondition ==
    \/ hasParent(cwd, 1) /\ ~locationOK(cwd)
    \/ GateEvaluated /\ (found_iso = FALSE \/ found_bios = NoBios)
    \/ rc7z \notin {-1, 0}

\* C7: a run whose session log was opened and that meets a fatal condition
\* terminates only after the critical diagnostic was written and the prompt
\* for Enter was reached.
C7_FatalSequence ==
    (pc = "exited" /\ log # <<>> /\ FatalCondition) =>
        /\ log[Len(log)].level = "critical"
        /\ prompted
        /\ exception = "none"

(***************************************************************************)
(* C8                                                                      *)
(***************************************************************************)
\* C8: a run that terminated through fatal_error has a non-zero exit status.
C8_FatalExitNonZero ==
    (pc = "exited" /\ HasCritical) => exitStatus # 0

(***************************************************************************)
(* C9                                                                      *)
(***************************************************************************)
\* C9: after the final gate passed, the bios destination holds exactly files
\* this run moved out of the working directory.
C9_BiosHoldsOnlyMoved ==
    Logged("all_finished") =>
        \A n \in DOMAIN biosDir :
            /\ n \in DOMAIN before.work
            /\ biosDir[n] = before.work[n]
            /\ n \notin DOMAIN workdir

(***************************************************************************)
(* C10                                                                     *)
(***************************************************************************)
\* C10: when the final gate was evaluated with found_iso false or found_bios
\* 'none', the iso, elf and bios destinations are as they were when the run
\* started.
C10_GateFailLeavesDests ==
    (GateEvaluated /\ (found_iso = FALSE \/ found_bios = NoBios)) =>
        /\ isoDir = before.iso
        /\ elfDir = before.elf
        /\ biosDir = before.bios

C10_Witness ==
    /\ pc = "exited"
    /\ Logged("cannot_continue")
    /\ found_bios # NoBios
    /\ biosDir # EmptyDir
    /\ memDir # before.mem

====
